---- MODULE Spec2Model ----
(***************************************************************************)
(* Model of app.py: the PDF -> markdown pipeline process_pdf_ocr and its   *)
(* helpers upload_pdf_to_mistral and cleanup_markdown_with_gemini.         *)
(*                                                                         *)
(* Text is a sequence of tokens <<kind, n>>.  One token stands for a run   *)
(* of characters the code treats as a unit:                                *)
(*   <<"T",0>>     ordinary text                                           *)
(*   <<"NL",0>>    one newline character                                   *)
(*   <<"IMG",0>>   one match of the pattern  !\[.*?\]\(.*?\)               *)
(*   <<"MARK",i>>  the text  <!-- Page i -->                               *)
(*   <<"D",k>>     the plain text of description k                         *)
(*   <<"BS",1>>    the two characters backslash n                          *)
(*   <<"BS",2>>    the two characters backslash q (no escape re knows)     *)
(* A Python value that may be None is [none |-> BOOLEAN, s |-> text].      *)
(***************************************************************************)
EXTENDS Integers, Sequences, FiniteSets, TLC

\* ------------------------------------------------------------- bounds
NumSessions == 2
MaxPages == 2
MaxImages == 2
MaxMarkdownLen == 2

Sessions == 1..NumSessions
TmpNames == 1..NumSessions

\* ------------------------------------------------------------- tokens
T == <<"T", 0>>
NL == <<"NL", 0>>
IMG == <<"IMG", 0>>
MARK(i) == <<"MARK", i>>
D(k) == <<"D", k>>
BSn == <<"BS", 1>>
BSq == <<"BS", 2>>

Str(x) == [none |-> FALSE, s |-> x]
NoneVal == [none |-> TRUE, s |-> <<>>]
NoPath == 0
NoErr == ""

\* ------------------------------------------------------------- OCR response values
\* image.image_annotation: absent (None or ""), or a string that is not JSON,
\* JSON that is not an object, or a JSON object with a description (<<>> when
\* the key is missing or the text is empty).
Absent == [kind |-> "absent", desc |-> <<>>]
NonJson == [kind |-> "nonjson", desc |-> <<>>]
NonObject == [kind |-> "nonobject", desc |-> <<>>]
Obj(d) == [kind |-> "object", desc |-> d]

Page(md, imgs) == [markdown |-> md, images |-> imgs]

SeqsUpTo(S, n) == UNION {[1..k -> S] : k \in 0..n}

\* responses the driver specifications draw from
PText == Page(<<T>>, <<>>)
PImg == Page(<<IMG>>, <<Obj(<<D(1)>>)>>)
PBad == Page(<<IMG>>, <<NonObject>>)
DriverPages == {PText, PImg, PBad}
DriverResponses == SeqsUpTo(DriverPages, MaxPages)
ConcResponses == {<<PImg>>}

\* responses the assembler specification draws from
RichAnnotations ==
  {Absent, NonJson, NonObject, Obj(<<>>), Obj(<<D(1)>>), Obj(<<D(2), BSn>>),
   Obj(<<BSq>>)}
RichPages ==
  {Page(md, imgs) : md \in SeqsUpTo({T, IMG}, MaxMarkdownLen),
                    imgs \in SeqsUpTo(RichAnnotations, MaxImages)}
RichResponses == SeqsUpTo(RichPages, MaxPages) \ {<<>>}

\* ------------------------------------------------------------- state
VARIABLES gemini_available, google_client, session, tmpdir
vars == <<gemini_available, google_client, session, tmpdir>>

\* ------------------------------------------------------------- pure helpers
\* json.loads(image.image_annotation) followed by .get('description', '')
JsonLoads(a) ==
  [decodes |-> a.kind # "nonjson", isdict |-> a.kind = "object", description |-> a.desc]

\* re's parse of the replacement template: an unknown escape is an error
TemplateOK(repl) == \A i \in 1..Len(repl) : repl[i] # BSq

\* re's expansion of the replacement template: backslash n becomes a newline
ExpandTemplate(repl) == [i \in 1..Len(repl) |-> IF repl[i] = BSn THEN NL ELSE repl[i]]

\* position of the leftmost match of the image pattern, 0 when there is none
FirstMatch(s) ==
  IF \E i \in 1..Len(s) : s[i] = IMG
  THEN CHOOSE i \in 1..Len(s) : s[i] = IMG /\ \A j \in 1..(i - 1) : s[j] # IMG
  ELSE 0

\* re.sub(pattern, repl, s, count=1) for a template that parses
ReSubFirst(repl, s) ==
  LET i == FirstMatch(s)
  IN IF i = 0 THEN s
     ELSE SubSeq(s, 1, i - 1) \o ExpandTemplate(repl) \o SubSeq(s, i + 1, Len(s))

\* the loop over page.images, from image i on: the error raised (NoErr when none)
\* and page_markdown when the loop ends
RECURSIVE SubImages(_, _, _)
SubImages(images, i, md) ==
  IF i > Len(images) THEN [err |-> NoErr, md |-> md]
  ELSE LET a == images[i]
           j == JsonLoads(a)
       IN IF a.kind = "absent" THEN SubImages(images, i + 1, md)
          ELSE IF ~j.decodes THEN SubImages(images, i + 1, md)
          ELSE IF ~j.isdict THEN [err |-> "AttributeError", md |-> md]
          ELSE IF j.description = <<>> THEN SubImages(images, i + 1, md)
          ELSE IF ~TemplateOK(j.description) THEN [err |-> "re.error", md |-> md]
          ELSE SubImages(images, i + 1, ReSubFirst(j.description, md))

\* page_markdown of one page as it is appended to the document: the error
\* raised while it is built (NoErr when none) and its text
PageBody(page, include) ==
  IF include /\ Len(page.images) > 0
  THEN SubImages(page.images, 1, page.markdown)
  ELSE [err |-> NoErr, md |-> page.markdown]

\* f"<!-- Page {idx} -->\n\n" with idx counted from 1
PageMarker_zeroBased(idx) == <<MARK(idx - 1), NL, NL>>

PageMarker(idx) == <<MARK(idx), NL, NL>>
PageSeparator == <<NL, NL>>


\* ------------------------------------------------------------- the driver's values
\* the third element of the returned tuple is marker + detail: the success
\* marker with the page count, or the failure marker with str(e)
NoResult ==
  [markdown |-> Str(<<>>), path |-> NoPath, marker |-> "none", npages |-> 0, error |-> NoErr]

SuccessResult_noPath(md, path, n) ==
  [markdown |-> md, path |-> NoPath, marker |-> "success", npages |-> n, error |-> NoErr]

SuccessResult(md, path, n) ==
  [markdown |-> md, path |-> path, marker |-> "success", npages |-> n, error |-> NoErr]

\* the except clause of process_pdf_ocr
FailResult_partial(sr, err) ==
  [markdown |-> sr.markdown_content, path |-> NoPath, marker |-> "failure", npages |-> 0,
   error |-> err]

FailResult(sr, err) ==
  [markdown |-> Str(<<>>), path |-> NoPath, marker |-> "failure", npages |-> 0, error |-> err]

Progress(trace, pct) == Append(trace, <<"progress", pct>>)
Event(trace, name) == Append(trace, <<name, 0>>)

\* an exception raised while the driver is at sr.pc reaches the except clause
Fail(sr, err) ==
  [sr EXCEPT !.pc = "done",
             !.result = FailResult(sr, err),
             !.raised = [phase |-> sr.pc, error |-> err]]

IdleSession ==
  [pc |-> "idle",
   include_image_descriptions |-> FALSE,
   cleanup_with_gemini |-> FALSE,
   pages |-> <<>>,
   idx |-> 1,
   markdown_content |-> Str(<<>>),
   temp_path |-> NoPath,
   result |-> NoResult,
   \* history, read by no guard
   trace |-> <<>>,
   bodies |-> <<>>,
   assembled |-> NoneVal,
   env |-> <<>>,
   reply |-> "notcalled",
   io |-> "none",
   raised |-> [phase |-> "none", error |-> NoErr]]

\* what generate_content can do with the prompt: raise, or return a response
\* whose text is the cleaned markdown, the empty string, or None
StripMarkers(s) == SelectSeq(s, LAMBDA t : t[1] # "MARK")
GeminiReplies == {"raises", "cleaned", "empty", "notext"}

\* cleanup_markdown_with_gemini(markdown_content), given what the service does
CleanupMarkdown_dropsOnError(md, reply) ==
  IF ~gemini_available \/ google_client = "none" THEN md
  ELSE IF reply = "raises" THEN Str(<<>>)
  ELSE IF reply = "cleaned" THEN Str(StripMarkers(md.s))
  ELSE IF reply = "empty" THEN Str(<<>>)
  ELSE NoneVal

CleanupMarkdown(md, reply) ==
  IF ~gemini_available \/ google_client = "none" THEN md
  ELSE IF reply = "raises" THEN md
  ELSE IF reply = "cleaned" THEN Str(StripMarkers(md.s))
  ELSE IF reply = "empty" THEN Str(<<>>)
  ELSE NoneVal

\* names tempfile can still create in the temp directory
FreshNames_reuse(dir) == TmpNames

FreshNames(dir) == TmpNames \ DOMAIN dir

Set(s, r) == session' = [session EXCEPT ![s] = r]

\* ------------------------------------------------------------- actions
\* the click handler is entered with the form's values; progress(0)
Request(s) ==
  /\ session[s].pc = "idle"
  /\ \E inc \in BOOLEAN, cl \in BOOLEAN :
       Set(s, [session[s] EXCEPT !.pc = "read",
                                 !.include_image_descriptions = inc,
                                 !.cleanup_with_gemini = cl,
                                 !.trace = Progress(@, 0)])
  /\ UNCHANGED <<gemini_available, google_client, tmpdir>>

\* an external call was made and returned (ok) or raised
Called(sr, name, ok) == [sr EXCEPT !.trace = Event(@, name), !.env = Append(@, ok)]

\* upload_pdf_to_mistral: open(pdf_file, "rb").read()
ReadFile(s) ==
  /\ session[s].pc = "read"
  /\ \E ok \in BOOLEAN :
       LET sr == Called(session[s], "read", ok)
       IN IF ok THEN Set(s, [sr EXCEPT !.pc = "upload"])
          ELSE Set(s, Fail(sr, "FileNotFoundError"))
  /\ UNCHANGED <<gemini_available, google_client, tmpdir>>

\* upload_pdf_to_mistral: client.files.upload(...)
UploadFile_retry(s) ==
  /\ session[s].pc = "upload"
  /\ \E ok \in BOOLEAN :
       LET sr == Called(session[s], "upload", ok)
       IN IF ok THEN Set(s, [sr EXCEPT !.pc = "signed_url"])
          ELSE IF Len(SelectSeq(sr.trace, LAMBDA e : e[1] = "upload")) < 2
               THEN Set(s, sr)
               ELSE Set(s, Fail(sr, "UploadError"))
  /\ UNCHANGED <<gemini_available, google_client, tmpdir>>

UploadFile(s) ==
  /\ session[s].pc = "upload"
  /\ \E ok \in BOOLEAN :
       LET sr == Called(session[s], "upload", ok)
       IN IF ok THEN Set(s, [sr EXCEPT !.pc = "signed_url"])
          ELSE Set(s, Fail(sr, "UploadError"))
  /\ UNCHANGED <<gemini_available, google_client, tmpdir>>

\* upload_pdf_to_mistral: client.files.get_signed_url(...); then progress(0.3)
GetSignedUrl(s) ==
  /\ session[s].pc = "signed_url"
  /\ \E ok \in BOOLEAN :
       LET sr == Called(session[s], "signed_url", ok)
       IN IF ok THEN Set(s, [sr EXCEPT !.pc = "ocr", !.trace = Progress(@, 30)])
          ELSE Set(s, Fail(sr, "SignedUrlError"))
  /\ UNCHANGED <<gemini_available, google_client, tmpdir>>

\* client.ocr.process(**ocr_params); then progress(0.7) and markdown_content = ""
OcrProcess(s, Responses) ==
  /\ session[s].pc = "ocr"
  /\ \/ Set(s, Fail(Called(session[s], "ocr", FALSE), "OcrError"))
     \/ \E resp \in Responses :
          Set(s, [Called(session[s], "ocr", TRUE) EXCEPT
                    !.pc = "assemble",
                    !.pages = resp,
                    !.idx = 1,
                    !.markdown_content = Str(<<>>),
                    !.trace = Progress(@, 70)])
  /\ UNCHANGED <<gemini_available, google_client, tmpdir>>

\* one iteration of: for idx, page in enumerate(ocr_response.pages, 1)
AssemblePage(s) ==
  /\ session[s].pc = "assemble"
  /\ session[s].idx <= Len(session[s].pages)
  /\ LET sr == [session[s] EXCEPT !.markdown_content = Str(@.s \o PageMarker(session[s].idx)),
                                  !.trace = Append(@, <<"page", session[s].idx>>)]
         b == PageBody(sr.pages[sr.idx], sr.include_image_descriptions)
     IN IF b.err # NoErr THEN Set(s, Fail(sr, b.err))
        ELSE Set(s, [sr EXCEPT !.markdown_content = Str(@.s \o b.md \o PageSeparator),
                               !.bodies = Append(@, b.md),
                               !.idx = @ + 1])
  /\ UNCHANGED <<gemini_available, google_client, tmpdir>>

\* the loop is exhausted: if cleanup_with_gemini and gemini_available then
\* progress(0.9) and the cleanup call follow, else progress(1.0)
EndAssemble_flagOnly(s) ==
  /\ session[s].pc = "assemble"
  /\ session[s].idx > Len(session[s].pages)
  /\ LET sr == [session[s] EXCEPT !.assembled = session[s].markdown_content]
     IN IF sr.cleanup_with_gemini
        THEN Set(s, [sr EXCEPT !.pc = "cleanup", !.trace = Progress(@, 90)])
        ELSE Set(s, [sr EXCEPT !.pc = "persist", !.trace = Progress(@, 100)])
  /\ UNCHANGED <<gemini_available, google_client, tmpdir>>

EndAssemble(s) ==
  /\ session[s].pc = "assemble"
  /\ session[s].idx > Len(session[s].pages)
  /\ LET sr == [session[s] EXCEPT !.assembled = session[s].markdown_content]
     IN IF sr.cleanup_with_gemini /\ gemini_available
        THEN Set(s, [sr EXCEPT !.pc = "cleanup", !.trace = Progress(@, 90)])
        ELSE Set(s, [sr EXCEPT !.pc = "persist", !.trace = Progress(@, 100)])
  /\ UNCHANGED <<gemini_available, google_client, tmpdir>>

\* markdown_content = cleanup_markdown_with_gemini(markdown_content); progress(1.0)
Cleanup(s) ==
  /\ session[s].pc = "cleanup"
  /\ \E reply \in GeminiReplies :
       Set(s, [session[s] EXCEPT !.pc = "persist",
                                 !.markdown_content = CleanupMarkdown(@, reply),
                                 !.reply = reply,
                                 !.trace = Progress(Event(@, "cleanup"), 100)])
  /\ UNCHANGED <<gemini_available, google_client, tmpdir>>

\* with tempfile.NamedTemporaryFile(mode='w', suffix='.md', delete=False, ...) as f:
\*     f.write(markdown_content); temp_path = f.name
\* and the return.  The file system may refuse the creation or the write; a file
\* that was created stays (delete=False), empty when the write did not happen.
Persist(s) ==
  /\ session[s].pc = "persist"
  /\ LET sr == [session[s] EXCEPT !.trace = Event(@, "persist")]
     IN \E io \in {"ok", "create_fails", "write_fails"} :
          IF io = "create_fails"
          THEN /\ Set(s, Fail([sr EXCEPT !.io = io], "OSError"))
               /\ UNCHANGED tmpdir
          ELSE IF FreshNames(tmpdir) = {}
          THEN /\ Set(s, Fail([sr EXCEPT !.io = "create_fails"], "FileExistsError"))
               /\ UNCHANGED tmpdir
          ELSE \E name \in FreshNames(tmpdir) :
                 IF sr.markdown_content.none
                 THEN /\ io = "ok"
                      /\ tmpdir' = (name :> <<>>) @@ tmpdir
                      /\ Set(s, Fail([sr EXCEPT !.io = io], "TypeError"))
                 ELSE IF io = "write_fails"
                 THEN /\ tmpdir' = (name :> <<>>) @@ tmpdir
                      /\ Set(s, Fail([sr EXCEPT !.io = io], "OSError"))
                 ELSE /\ tmpdir' = (name :> sr.markdown_content.s) @@ tmpdir
                      /\ Set(s, [sr EXCEPT !.pc = "done",
                                           !.io = io,
                                           !.temp_path = name,
                                           !.result = SuccessResult(sr.markdown_content, name,
                                                                    Len(sr.pages))])
  /\ UNCHANGED <<gemini_available, google_client>>

\* ------------------------------------------------------------- specifications
\* module import: the Gemini client exists exactly when a key was set and the
\* client could be built; no request is running; the temp directory holds none
\* of this program's files
ModuleInit ==
  /\ \E avail \in BOOLEAN :
       /\ gemini_available = avail
       /\ google_client = IF avail THEN "client" ELSE "none"
  /\ tmpdir = <<>>

Init ==
  /\ ModuleInit
  /\ session = [s \in Sessions |-> IdleSession]

Step(s, Responses) ==
  \/ Request(s)
  \/ ReadFile(s)
  \/ UploadFile(s)
  \/ GetSignedUrl(s)
  \/ OcrProcess(s, Responses)
  \/ AssemblePage(s)
  \/ EndAssemble(s)
  \/ Cleanup(s)
  \/ Persist(s)

\* one request
Next == Step(1, DriverResponses)
Spec == Init /\ [][Next]_vars

\* one request; the handler runs on a worker thread that keeps running
FairSpec == Spec /\ WF_vars(Next)

\* concurrent requests
NextConc == \E s \in Sessions : Step(s, ConcResponses)
SpecConc == Init /\ [][NextConc]_vars

\* the assembly loop alone, entered as OcrProcess leaves the session, on every
\* response of RichResponses (no Gemini key set, cleanup not requested)
AssembleStart(inc, resp) ==
  [IdleSession EXCEPT
     !.pc = "assemble",
     !.include_image_descriptions = inc,
     !.pages = resp,
     !.env = <<TRUE, TRUE, TRUE, TRUE>>,
     !.trace = <<<<"progress", 0>>, <<"read", 0>>, <<"upload", 0>>, <<"signed_url", 0>>,
                 <<"progress", 30>>, <<"ocr", 0>>, <<"progress", 70>>>>]

InitAsm ==
  /\ gemini_available = FALSE
  /\ google_client = "none"
  /\ tmpdir = <<>>
  /\ \E resp \in RichResponses :
       session = [s \in Sessions |-> IF s = 1 THEN AssembleStart(TRUE, resp) ELSE IdleSession]

NextAsm == AssemblePage(1) \/ EndAssemble(1)
SpecAsm == InitAsm /\ [][NextAsm]_vars

\* ------------------------------------------------------------- properties
Last(q) == q[Len(q)]
IsPrefix(p, q) == Len(p) <= Len(q) /\ SubSeq(q, 1, Len(p)) = p
Count(q, name) == Len(SelectSeq(q, LAMBDA e : e[1] = name))
Returned(sr) == sr.pc = "done"

\* C1: a returned result carries a file path exactly when its status is the
\* success status, and no path exactly when it is the failure status; the status
\* is the success status exactly when no exception reached the except clause.
C1_PathIffSuccess ==
  \A s \in Sessions :
    LET sr == session[s]
    IN Returned(sr) =>
         /\ sr.result.marker \in {"success", "failure"}
         /\ (sr.result.path # NoPath) <=> (sr.result.marker = "success")
         /\ (sr.result.path = NoPath) <=> (sr.result.marker = "failure")
         /\ (sr.result.marker = "success") <=> (sr.raised.phase = "none")
         /\ sr.result.path # NoPath => sr.result.path \in DOMAIN tmpdir

\* a run that created its temp file, failed to write it, and returned no path
C1_Witness ==
  \E s \in Sessions :
    /\ Returned(session[s])
    /\ session[s].io = "write_fails"
    /\ tmpdir # <<>>
    /\ session[s].result.path = NoPath

\* str(e) of the exception each phase of upload, OCR and assembly raises
PhaseErrors ==
  [read |-> {"FileNotFoundError"}, upload |-> {"UploadError"},
   signed_url |-> {"SignedUrlError"}, ocr |-> {"OcrError"},
   assemble |-> {"AttributeError", "re.error"}]

\* C2: when the file read, the upload, the signed-URL request, the OCR call or
\* the assembly raises, the run ends there (the failing step is the last thing
\* it did) and returns exactly the empty markdown, no file, and the failure
\* marker with the error's text, whatever had been assembled by then.
C2_FailureResult ==
  \A s \in Sessions :
    LET sr == session[s]
    IN (Returned(sr) /\ sr.raised.phase \in DOMAIN PhaseErrors) =>
         /\ sr.result.markdown = Str(<<>>)
         /\ sr.result.path = NoPath
         /\ sr.result.marker = "failure"
         /\ sr.result.error \in PhaseErrors[sr.raised.phase]
         /\ Last(sr.trace)[1] = (IF sr.raised.phase = "assemble" THEN "page"
                                 ELSE sr.raised.phase)
         /\ Count(sr.trace, "cleanup") = 0 /\ Count(sr.trace, "persist") = 0
         /\ tmpdir = <<>>

\* the second page of a response fails to assemble after the first was assembled
C2_Witness ==
  \E s \in Sessions :
    /\ Returned(session[s])
    /\ session[s].raised.phase = "assemble"
    /\ Len(session[s].bodies) = 1
    /\ Len(session[s].markdown_content.s) > 3

\* C3 (the claim as stated): once the cleanup call was made, and the file system
\* accepts the temp file, the run returns the success result with a markdown
\* string and a file path, whatever the text-generation service did.
C3_CleanupNeverFails ==
  \A s \in Sessions :
    LET sr == session[s]
    IN (Returned(sr) /\ sr.reply # "notcalled" /\ sr.io = "ok") =>
         /\ sr.result.marker = "success"
         /\ sr.result.path # NoPath
         /\ ~sr.result.markdown.none

\* C4: on a run that returns the success result, when the Gemini client is not
\* configured or the cleanup call raised, the returned markdown and the content
\* of the temp file are the assembled document, whether or not cleanup was
\* requested; so is markdown_content as soon as the cleanup stage is passed.
C4_CleanupFallbackIdentity ==
  \A s \in Sessions :
    LET sr == session[s]
    IN (~gemini_available \/ sr.reply = "raises") =>
         /\ sr.pc = "persist" => sr.markdown_content = sr.assembled
         /\ (Returned(sr) /\ sr.result.marker = "success") =>
              /\ ~sr.assembled.none
              /\ sr.result.markdown = sr.assembled
              /\ tmpdir[sr.result.path] = sr.assembled.s

\* cleanup was called on a non-empty document, raised, and the run succeeded
C4_Witness ==
  \E s \in Sessions :
    /\ Returned(session[s])
    /\ session[s].result.marker = "success"
    /\ session[s].reply = "raises"
    /\ Len(session[s].assembled.s) > 0

\* the document the claim describes: for each page in order, the marker of its
\* 1-based number, a blank line, the page's markdown, a blank line
RECURSIVE ExpectedDoc(_, _)
ExpectedDoc(bodies, n) ==
  IF n = 0 THEN <<>>
  ELSE ExpectedDoc(bodies, n - 1) \o <<MARK(n), NL, NL>> \o bodies[n] \o <<NL, NL>>

MarkersOf(doc) == SelectSeq(doc, LAMBDA t : t[1] = "MARK")

\* C5: the assembled document holds exactly one page marker per page of the OCR
\* response, numbered 1, 2, ... in order with no gap, each followed by a blank
\* line, that page's markdown (as returned, when it has no image to describe)
\* and a blank line; the same holds of the pages assembled so far while the
\* loop runs.
C5_PageMarkers ==
  \A s \in Sessions :
    LET sr == session[s]
        done == Len(sr.bodies)
    IN /\ (sr.pc = "assemble" /\ ~sr.markdown_content.none) =>
            /\ done = sr.idx - 1
            /\ sr.markdown_content.s = ExpectedDoc(sr.bodies, done)
       /\ ~sr.assembled.none =>
            /\ done = Len(sr.pages)
            /\ sr.assembled.s = ExpectedDoc(sr.bodies, done)
            /\ MarkersOf(sr.assembled.s) = [i \in 1..Len(sr.pages) |-> MARK(i)]
            /\ \A i \in 1..Len(sr.pages) :
                 (~sr.include_image_descriptions \/ sr.pages[i].images = <<>>)
                   => sr.bodies[i] = sr.pages[i].markdown

\* a two-page response is assembled, the second page with a description in it
C5_Witness ==
  \E s \in Sessions :
    /\ ~session[s].assembled.none
    /\ Len(session[s].pages) = 2
    /\ session[s].bodies[2] = <<D(1)>>

\* an annotation that json.loads accepts as an object with a non-empty description
Valid(a) == a.kind = "object" /\ a.desc # <<>>
\* a valid annotation whose description is plain text
Plain(a) == Valid(a) /\ \A i \in 1..Len(a.desc) : a.desc[i][1] = "D"

\* md from position p on, k placeholders already passed, with the placeholder
\* number j replaced by the literal description of annotation j when there is
\* one and it is valid, and left as it is otherwise
RECURSIVE Positional(_, _, _, _)
Positional(md, images, p, k) ==
  IF p > Len(md) THEN <<>>
  ELSE IF md[p] = IMG
       THEN (IF k + 1 <= Len(images) /\ Valid(images[k + 1])
             THEN images[k + 1].desc ELSE <<IMG>>)
            \o Positional(md, images, p + 1, k + 1)
       ELSE <<md[p]>> \o Positional(md, images, p + 1, k)

\* C6 (the claim as stated): with image descriptions enabled, a page whose
\* annotations all carry valid descriptions is assembled, and in its markdown
\* the first min(N, M) placeholders are replaced, each by the literal
\* description at the same position, the others left as they are.
C6_PositionalLiteral ==
  \A s \in Sessions :
    LET sr == session[s]
    IN sr.include_image_descriptions =>
         /\ \A i \in 1..Len(sr.bodies) :
              (\A k \in 1..Len(sr.pages[i].images) : Valid(sr.pages[i].images[k]))
                => sr.bodies[i] = Positional(sr.pages[i].markdown, sr.pages[i].images, 1, 0)
         /\ (Returned(sr) /\ sr.raised.phase = "assemble") =>
              \E k \in 1..Len(sr.pages[sr.idx].images) : ~Valid(sr.pages[sr.idx].images[k])

\* C7 (the claim as stated): on a page whose annotations are malformed
\* (non-JSON) or valid with a plain description, assembly goes on, and the
\* placeholder at each malformed annotation's position is still in the output
\* while every valid annotation's description is at its own position.
C7_MalformedKeepsPlaceholder ==
  \A s \in Sessions :
    LET sr == session[s]
        Mixed(imgs) == \A k \in 1..Len(imgs) : imgs[k] = NonJson \/ Plain(imgs[k])
    IN sr.include_image_descriptions =>
         /\ \A i \in 1..Len(sr.bodies) :
              Mixed(sr.pages[i].images)
                => sr.bodies[i] = Positional(sr.pages[i].markdown, sr.pages[i].images, 1, 0)
         /\ (Returned(sr) /\ sr.raised.phase = "assemble") =>
              ~Mixed(sr.pages[sr.idx].images)

\* the order of a run that assembles n pages, with and without the cleanup stage
FullTrace(n, cleanup) ==
  <<<<"progress", 0>>, <<"read", 0>>, <<"upload", 0>>, <<"signed_url", 0>>,
    <<"progress", 30>>, <<"ocr", 0>>, <<"progress", 70>>>>
  \o [i \in 1..n |-> <<"page", i>>]
  \o (IF cleanup THEN <<<<"progress", 90>>, <<"cleanup", 0>>>> ELSE <<>>)
  \o <<<<"progress", 100>>, <<"persist", 0>>>>

ExternalCalls == {"read", "upload", "signed_url", "ocr", "cleanup", "persist"}

NoRetry(sr) ==
  /\ \A c \in ExternalCalls : Count(sr.trace, c) <= 1
  /\ (Returned(sr) /\ sr.raised.phase \in {"read", "upload", "signed_url", "ocr"}) =>
        /\ Last(sr.trace)[1] = sr.raised.phase
        /\ Count(sr.trace, "cleanup") = 0
        /\ Count(sr.trace, "persist") = 0

\* C9: in a request every external operation is called at most once, nothing
\* is called after the upload, the signed-URL request or the OCR call failed,
\* and a request that was started returns a result.
C9_NoRetryTerminates ==
  /\ [](\A s \in Sessions : NoRetry(session[s]))
  /\ (session[1].pc # "idle") ~> Returned(session[1])

\* the upload failed and the request returned
C9_Witness ==
  \E s \in Sessions :
    /\ Returned(session[s])
    /\ session[s].raised.phase = "upload"

\* the document process_pdf_ocr assembles from a response, run on its own
RECURSIVE AssembleAll(_, _, _, _)
AssembleAll(pages, include, i, doc) ==
  IF i > Len(pages) THEN [err |-> NoErr, md |-> doc]
  ELSE LET b == PageBody(pages[i], include)
       IN IF b.err # NoErr THEN [err |-> b.err, md |-> doc]
          ELSE AssembleAll(pages, include, i + 1,
                           doc \o <<MARK(i), NL, NL>> \o b.md \o <<NL, NL>>)

\* the result of one request run alone on sr's inputs (the two flags) and on
\* what the services and the file system answered to sr, up to the file's name
Alone(sr) ==
  LET failed(err) == [markdown |-> Str(<<>>), marker |-> "failure", npages |-> 0, error |-> err]
      doc == AssembleAll(sr.pages, sr.include_image_descriptions, 1, <<>>)
      md == IF sr.cleanup_with_gemini /\ gemini_available
            THEN (IF sr.reply = "raises" THEN Str(doc.md)
                  ELSE IF sr.reply = "cleaned" THEN Str(StripMarkers(doc.md))
                  ELSE IF sr.reply = "empty" THEN Str(<<>>)
                  ELSE NoneVal)
            ELSE Str(doc.md)
  IN IF ~sr.env[1] THEN failed("FileNotFoundError")
     ELSE IF ~sr.env[2] THEN failed("UploadError")
     ELSE IF ~sr.env[3] THEN failed("SignedUrlError")
     ELSE IF ~sr.env[4] THEN failed("OcrError")
     ELSE IF doc.err # NoErr THEN failed(doc.err)
     ELSE IF sr.io = "create_fails" THEN failed("OSError")
     ELSE IF md.none THEN failed("TypeError")
     ELSE IF sr.io = "write_fails" THEN failed("OSError")
     ELSE [markdown |-> md, marker |-> "success", npages |-> Len(sr.pages), error |-> NoErr]

\* C10: under any interleaving of the requests, each returned result is the one
\* the request produces alone on its own inputs and answers, two successful
\* requests never return the same temp file, and each successful request's file
\* holds that request's markdown.
C10_SessionsIndependent ==
  \A s \in Sessions :
    LET sr == session[s]
    IN Returned(sr) =>
         /\ [markdown |-> sr.result.markdown, marker |-> sr.result.marker,
             npages |-> sr.result.npages, error |-> sr.result.error] = Alone(sr)
         /\ sr.result.marker = "success" =>
              /\ sr.result.path \in DOMAIN tmpdir
              /\ tmpdir[sr.result.path] = sr.result.markdown.s
              /\ \A t \in Sessions \ {s} :
                   Returned(session[t]) => session[t].result.path # sr.result.path

\* two requests succeeded with different markdown, each in its own file
C10_Witness ==
  \E s, t \in Sessions :
    /\ Returned(session[s]) /\ Returned(session[t])
    /\ session[s].result.marker = "success" /\ session[t].result.marker = "success"
    /\ session[s].result.markdown # session[t].result.markdown
    /\ session[s].result.path # session[t].result.path

====
